---- MODULE Spec2Model ----
(***************************************************************************)
(* Model of the @fiery-tools/sendmail mail module: a module-level          *)
(* nodemailer transporter and the async function mail(to, from, subject,   *)
(* html) that submits one message through it, logs, and returns the        *)
(* transport's info or rethrows the transport's error.                     *)
(*                                                                         *)
(* JavaScript values are records tagged with a "type" field, so that a     *)
(* string, an info object, an error and undefined are different values.    *)
(***************************************************************************)
EXTENDS Integers, Sequences, FiniteSets

\* Number of calls to mail the caller makes (calls are numbered in the order made).
MaxCalls == 2

\* port: 25 of the createTransport options.
SmtpPort == 25

Calls == 1..MaxCalls

\* The two module files of the repository that define the transporter and mail.
Files == {"index.js", "part_001"}

VARIABLES
  file,         \* the module file that was loaded
  transporter,  \* the module-level const transporter
  created,      \* number of nodemailer.createTransport calls so far
  pc,           \* position of each call to mail
  args,         \* the arguments of each call
  completion,   \* how each call settled: returned value or thrown error
  sent,         \* the transporter.sendMail invocations, in the order received
  promise,      \* the promise of each sendMail invocation
  log           \* the console lines written, in order

vars == <<file, transporter, created, pc, args, completion, sent, promise, log>>

----------------------------------------------------------------------------
(* JavaScript values *)

Undefined == [type |-> "undefined"]

Str(chars) == [type |-> "string", chars |-> chars]

\* Argument values the caller passes.
ToValues == {"rcpt1@example.com", "rcpt1@example.com, rcpt2@example.com"}
FromValues == {"support@mail.example.org"}
SubjectValues == {"Test"}
HtmlValues == {"<h1>Hello</h1>"}

\* The addresses named by a "to" string (nodemailer splits an address list on commas).
AddressList(to) ==
  CASE to = "rcpt1@example.com" -> {"rcpt1@example.com"}
    [] to = "rcpt1@example.com, rcpt2@example.com" ->
         {"rcpt1@example.com", "rcpt2@example.com"}
    [] OTHER -> {to}

----------------------------------------------------------------------------
(* The transporter *)

\* The options object literal handed to createTransport by each file.
Options(f) ==
  IF f = "index.js"
    THEN [host |-> "localhost", port |-> SmtpPort, secure |-> FALSE]
    ELSE [host |-> "localhost", port |-> SmtpPort, secure |-> FALSE,
          tls |-> [rejectUnauthorized |-> FALSE]]

\* nodemailer.createTransport(options): the n-th transport object made.
CreateTransport(options, n) ==
  [type |-> "transporter", id |-> n, options |-> options]

\* Whether a transport with these options accepts a self-signed certificate
\* (Node validates certificates unless tls.rejectUnauthorized is false).
AcceptsSelfSigned(options) ==
  /\ "tls" \in DOMAIN options
  /\ options.tls.rejectUnauthorized = FALSE

Pending == [state |-> "pending"]
Fulfilled(v) == [state |-> "fulfilled", value |-> v]
Rejected(e) == [state |-> "rejected", reason |-> e]

\* The message id the transport assigns to its s-th submission.
MessageId(s) == Str(<<"<", s, "@localhost>">>)

\* The info object sendMail resolves with: R are the recipients the server rejected.
Info(s, data, R) ==
  [type |-> "object",
   messageId |-> MessageId(s),
   envelope |-> [from |-> data.from, to |-> AddressList(data.to)],
   accepted |-> AddressList(data.to) \ R,
   rejected |-> R]

\* The Error object sendMail rejects with, raised for the s-th submission.
TransportError(code, s) == [type |-> "error", code |-> code, raisedFor |-> s]

----------------------------------------------------------------------------
(* Init: the state after the module was loaded *)

NoArgs == [type |-> "undefined"]

Init ==
  /\ file \in Files
  /\ transporter = CreateTransport(Options(file), 1)
  /\ created = 1
  /\ pc = [c \in Calls |-> "idle"]
  /\ args = [c \in Calls |-> NoArgs]
  /\ completion = [c \in Calls |-> Undefined]
  /\ sent = <<>>
  /\ promise = <<>>
  /\ log = <<>>

----------------------------------------------------------------------------
(* mail(to, from, subject, html) *)

\* Mutant of MailOptions: recipient and sender swapped.
MailOptions_Swapped(to, from, subject, html) ==
  [from |-> to, to |-> from, subject |-> subject, html |-> html]

\* The object literal { from, to, subject, html } handed to sendMail.
MailOptions(to, from, subject, html) ==
  [from |-> from, to |-> to, subject |-> subject, html |-> html]

\* Mutant of TransporterUsed: a transport constructed inside mail, per call.
TransporterPerCall == CreateTransport(Options(file), created + 1)

\* The transporter object a call to mail sends through.
TransporterUsed == transporter

\* The index in sent of the sendMail invocation call c awaits (0: none).
SubmissionOf(c) ==
  IF \E s \in 1..Len(sent) : sent[s].call = c
    THEN CHOOSE s \in 1..Len(sent) : sent[s].call = c
    ELSE 0

\* Whether call c may enter mail now: calls are numbered in the order made.
CanCall(c) ==
  /\ pc[c] = "idle"
  /\ \A d \in Calls : d < c => pc[d] # "idle"

\* Mutant of MailCall: a message identical to one already submitted is not
\* submitted again.
MailCall_Dedups(c, to, from, subject, html) ==
  /\ CanCall(c)
  /\ args' = [args EXCEPT ![c] =
                [to |-> to, from |-> from, subject |-> subject, html |-> html]]
  /\ IF \E s \in 1..Len(sent) : sent[s].data = MailOptions(to, from, subject, html)
       THEN UNCHANGED <<sent, promise>>
       ELSE /\ sent' = Append(sent, [call |-> c, transporter |-> TransporterUsed,
                                     data |-> MailOptions(to, from, subject, html)])
            /\ promise' = Append(promise, Pending)
  /\ pc' = [pc EXCEPT ![c] = "awaiting"]
  /\ UNCHANGED <<file, transporter, created, completion, log>>

\* Mutant of MailCall: sends are serialized, a call waits while another is in flight.
MailCall_Serialized(c, to, from, subject, html) ==
  /\ CanCall(c)
  /\ \A d \in Calls : pc[d] # "awaiting"
  /\ args' = [args EXCEPT ![c] =
                [to |-> to, from |-> from, subject |-> subject, html |-> html]]
  /\ sent' = Append(sent, [call |-> c, transporter |-> TransporterUsed,
                           data |-> MailOptions(to, from, subject, html)])
  /\ promise' = Append(promise, Pending)
  /\ pc' = [pc EXCEPT ![c] = "awaiting"]
  /\ UNCHANGED <<file, transporter, created, completion, log>>

\* The call enters mail and runs to the await: it builds the message and
\* invokes transporter.sendMail, which returns a pending promise.
MailCall(c, to, from, subject, html) ==
  /\ CanCall(c)
  /\ args' = [args EXCEPT ![c] =
                [to |-> to, from |-> from, subject |-> subject, html |-> html]]
  /\ sent' = Append(sent, [call |-> c, transporter |-> TransporterUsed,
                           data |-> MailOptions(to, from, subject, html)])
  /\ promise' = Append(promise, Pending)
  /\ pc' = [pc EXCEPT ![c] = "awaiting"]
  /\ UNCHANGED <<file, transporter, created, completion, log>>

ConsoleLog(format, arg) == [stream |-> "stdout", text |-> format, arg |-> arg]
ConsoleError(label, arg) == [stream |-> "stderr", text |-> label, arg |-> arg]

\* Mutant of MailReturn: the return statement is missing.
MailReturn_DropsValue(c) ==
  /\ pc[c] = "awaiting"
  /\ SubmissionOf(c) # 0
  /\ promise[SubmissionOf(c)].state = "fulfilled"
  /\ LET info == promise[SubmissionOf(c)].value IN
       /\ log' = Append(log, ConsoleLog("Message sent: %s", info.messageId))
       /\ completion' = [completion EXCEPT ![c] = [type |-> "return", value |-> Undefined]]
  /\ pc' = [pc EXCEPT ![c] = "returned"]
  /\ UNCHANGED <<file, transporter, created, args, sent, promise>>

\* The await resumes with the promise's value: log the message id, return info.
MailReturn(c) ==
  /\ pc[c] = "awaiting"
  /\ SubmissionOf(c) # 0
  /\ promise[SubmissionOf(c)].state = "fulfilled"
  /\ LET info == promise[SubmissionOf(c)].value IN
       /\ log' = Append(log, ConsoleLog("Message sent: %s", info.messageId))
       /\ completion' = [completion EXCEPT ![c] = [type |-> "return", value |-> info]]
  /\ pc' = [pc EXCEPT ![c] = "returned"]
  /\ UNCHANGED <<file, transporter, created, args, sent, promise>>

\* Mutant of MailCatch: the error is logged and not rethrown.
MailCatch_Swallows(c) ==
  /\ pc[c] = "awaiting"
  /\ SubmissionOf(c) # 0
  /\ promise[SubmissionOf(c)].state = "rejected"
  /\ LET error == promise[SubmissionOf(c)].reason IN
       /\ log' = Append(log, ConsoleError("Error sending email:", error))
       /\ completion' = [completion EXCEPT ![c] = [type |-> "return", value |-> Undefined]]
  /\ pc' = [pc EXCEPT ![c] = "returned"]
  /\ UNCHANGED <<file, transporter, created, args, sent, promise>>

\* Mutant of MailCatch: the error is rethrown without being logged.
MailCatch_NoLog(c) ==
  /\ pc[c] = "awaiting"
  /\ SubmissionOf(c) # 0
  /\ promise[SubmissionOf(c)].state = "rejected"
  /\ LET error == promise[SubmissionOf(c)].reason IN
       completion' = [completion EXCEPT ![c] = [type |-> "throw", value |-> error]]
  /\ pc' = [pc EXCEPT ![c] = "thrown"]
  /\ UNCHANGED <<file, transporter, created, args, sent, promise, log>>

\* Mutant of MailCatch: mail gives up on a send that is still pending and
\* throws a timeout error of its own.
MailCatch_TimesOut(c) ==
  /\ pc[c] = "awaiting"
  /\ SubmissionOf(c) # 0
  /\ promise[SubmissionOf(c)].state # "fulfilled"
  /\ LET error == IF promise[SubmissionOf(c)].state = "rejected"
                    THEN promise[SubmissionOf(c)].reason
                    ELSE TransportError("ETIMEDOUT", SubmissionOf(c))
     IN
       /\ log' = Append(log, ConsoleError("Error sending email:", error))
       /\ completion' = [completion EXCEPT ![c] = [type |-> "throw", value |-> error]]
  /\ pc' = [pc EXCEPT ![c] = "thrown"]
  /\ UNCHANGED <<file, transporter, created, args, sent, promise>>

\* The await throws the promise's reason: log the error, rethrow it.
MailCatch(c) ==
  /\ pc[c] = "awaiting"
  /\ SubmissionOf(c) # 0
  /\ promise[SubmissionOf(c)].state = "rejected"
  /\ LET error == promise[SubmissionOf(c)].reason IN
       /\ log' = Append(log, ConsoleError("Error sending email:", error))
       /\ completion' = [completion EXCEPT ![c] = [type |-> "throw", value |-> error]]
  /\ pc' = [pc EXCEPT ![c] = "thrown"]
  /\ UNCHANGED <<file, transporter, created, args, sent, promise>>

----------------------------------------------------------------------------
(* The transport's responses (nodemailer and the SMTP server) *)

IsPending(s) == s \in 1..Len(promise) /\ promise[s].state = "pending"

\* The connection is refused: sendMail rejects.
TransportRefuse(s) ==
  /\ IsPending(s)
  /\ promise' = [promise EXCEPT ![s] = Rejected(TransportError("ECONNECTION", s))]
  /\ UNCHANGED <<file, transporter, created, pc, args, completion, sent, log>>

\* STARTTLS fails on the server's self-signed certificate, unless the
\* transporter was configured to accept it.
TransportTlsFail(s) ==
  /\ IsPending(s)
  /\ ~AcceptsSelfSigned(sent[s].transporter.options)
  /\ promise' = [promise EXCEPT ![s] = Rejected(TransportError("ETLS", s))]
  /\ UNCHANGED <<file, transporter, created, pc, args, completion, sent, log>>

\* The server accepts the connection and rejects every recipient: sendMail rejects.
TransportRejectAll(s) ==
  /\ IsPending(s)
  /\ promise' = [promise EXCEPT ![s] = Rejected(TransportError("EENVELOPE", s))]
  /\ UNCHANGED <<file, transporter, created, pc, args, completion, sent, log>>

\* The server accepts the message for at least one recipient and rejects the
\* recipients R: sendMail resolves with info, info.rejected = R.
TransportAccept(s, R) ==
  /\ IsPending(s)
  /\ R \subseteq AddressList(sent[s].data.to)
  /\ R # AddressList(sent[s].data.to)
  /\ promise' = [promise EXCEPT ![s] = Fulfilled(Info(s, sent[s].data, R))]
  /\ UNCHANGED <<file, transporter, created, pc, args, completion, sent, log>>

----------------------------------------------------------------------------

Addresses == UNION {AddressList(to) : to \in ToValues}

Next ==
  \/ \E c \in Calls, to \in ToValues, from \in FromValues,
        subject \in SubjectValues, html \in HtmlValues :
       MailCall(c, to, from, subject, html)
  \/ \E c \in Calls : MailReturn(c)
  \/ \E c \in Calls : MailCatch(c)
  \/ \E s \in 1..MaxCalls : TransportRefuse(s)
  \/ \E s \in 1..MaxCalls : TransportTlsFail(s)
  \/ \E s \in 1..MaxCalls : TransportRejectAll(s)
  \/ \E s \in 1..MaxCalls, R \in SUBSET Addresses : TransportAccept(s, R)

Spec == Init /\ [][Next]_vars

\* The event loop runs every continuation whose promise has settled.
FairSpec ==
  /\ Spec
  /\ \A c \in Calls : WF_vars(MailReturn(c) \/ MailCatch(c))

----------------------------------------------------------------------------
(* Properties *)

Settled(c) == pc[c] \in {"returned", "thrown"}

\* The promise call c awaits has been settled by the transport.
TransportSettled(c) ==
  /\ SubmissionOf(c) # 0
  /\ promise[SubmissionOf(c)].state # "pending"

\* The server rejected at least one recipient of the s-th submission.
RecipientRejected(s) ==
  \/ promise[s].state = "rejected" /\ promise[s].reason.code = "EENVELOPE"
  \/ promise[s].state = "fulfilled" /\ promise[s].value.rejected # {}

\* C1 as stated: whenever a call to mail completes successfully, the value
\* returned to the caller is a non-empty delivery identifier, the message id
\* string itself.
C1_ReturnsMessageId ==
  \A c \in Calls :
    pc[c] = "returned" =>
      /\ completion[c].value.type = "string"
      /\ completion[c].value.chars # <<>>

\* C1 amended: whenever a call to mail completes successfully, the value
\* returned is the info object the transport resolved with, whose messageId
\* field is the non-empty message id the transport assigned to that submission.
C1_ReturnsInfoWithMessageId ==
  \A c \in Calls :
    pc[c] = "returned" =>
      /\ completion[c].type = "return"
      /\ completion[c].value.type = "object"
      /\ completion[c].value = promise[SubmissionOf(c)].value
      /\ completion[c].value.messageId.type = "string"
      /\ completion[c].value.messageId.chars # <<>>
      /\ completion[c].value.messageId = MessageId(SubmissionOf(c))

C1_Witness ==
  \E c \in Calls : pc[c] = "returned" /\ promise[SubmissionOf(c)].state = "fulfilled"

\* C2: whenever the transport's send operation fails, the call to mail fails
\* too, with the very same error the transport raised; a transport failure is
\* never swallowed or turned into a successful return.
C2_TransportErrorPropagated ==
  \A c \in Calls :
    (SubmissionOf(c) # 0 /\ promise[SubmissionOf(c)].state = "rejected") =>
      /\ pc[c] \in {"awaiting", "thrown"}
      /\ pc[c] = "thrown" =>
           completion[c] = [type |-> "throw", value |-> promise[SubmissionOf(c)].reason]

C2_Witness ==
  \E c \in Calls :
    /\ pc[c] = "thrown"
    /\ promise[SubmissionOf(c)].state = "rejected"
    /\ promise[SubmissionOf(c)].reason.code = "ECONNECTION"

\* C3: every call to mail makes exactly one submission to the transport,
\* whether it succeeds or fails: no retry after a failure, no deduplication of
\* identical calls, so after N calls the transport has received N submissions.
C3_OneSubmissionPerCall ==
  /\ Len(sent) = Cardinality({c \in Calls : pc[c] # "idle"})
  /\ \A c \in Calls :
       Cardinality({s \in 1..Len(sent) : sent[s].call = c}) =
         IF pc[c] = "idle" THEN 0 ELSE 1

C3_Witness ==
  \E c, d \in Calls :
    /\ c # d
    /\ args[c] = args[d]
    /\ pc[c] = "thrown"
    /\ pc[d] # "idle"
    /\ Len(sent) = 2

\* C4: every call to mail that settles has written exactly one log line: the
\* 'Message sent' line when it returned, the 'Error sending email' line when it
\* failed; never both and never neither (and a call that has not settled none).
C4_OneLogLinePerSettledCall ==
  /\ Len(log) = Cardinality({c \in Calls : Settled(c)})
  /\ \A c \in Calls :
       /\ pc[c] = "returned" =>
            Cardinality({i \in 1..Len(log) :
              log[i] = ConsoleLog("Message sent: %s", MessageId(SubmissionOf(c)))}) = 1
       /\ pc[c] = "thrown" =>
            Cardinality({i \in 1..Len(log) :
              log[i] = ConsoleError("Error sending email:",
                                    promise[SubmissionOf(c)].reason)}) = 1
       /\ pc[c] # "returned" =>
            \A i \in 1..Len(log) :
              log[i].stream = "stdout" => log[i].arg # MessageId(SubmissionOf(c))
       /\ pc[c] # "thrown" =>
            \A i \in 1..Len(log) :
              log[i].stream = "stderr" => log[i].arg.raisedFor # SubmissionOf(c)

C4_Witness ==
  \E c, d \in Calls :
    /\ pc[c] = "returned"
    /\ pc[d] = "thrown"
    /\ Len(log) = 2

\* C5 as stated: when the transport accepts the connection but rejects the
\* recipient, the call to mail fails; it never returns a delivery result for
\* a message whose recipient was rejected.
C5_RejectedRecipientNeverReturns ==
  \A s \in 1..Len(sent) :
    RecipientRejected(s) => pc[sent[s].call] # "returned"

\* C6: several calls can be in flight at once: a call can be made whatever the
\* state of the other calls, its submission is with the transport as soon as it
\* awaits, and under every interleaving of the transport's responses each call
\* settles with the outcome of its own submission.
C6_ConcurrentCallsIndependent ==
  \A c \in Calls :
    /\ CanCall(c) =>
         ENABLED (\E to \in ToValues, from \in FromValues,
                     subject \in SubjectValues, html \in HtmlValues :
                    MailCall(c, to, from, subject, html))
    /\ pc[c] = "awaiting" =>
         /\ SubmissionOf(c) # 0
         /\ sent[SubmissionOf(c)].data =
              MailOptions(args[c].to, args[c].from, args[c].subject, args[c].html)
    /\ pc[c] = "returned" =>
         /\ completion[c].value = promise[SubmissionOf(c)].value
         /\ completion[c].value.messageId = MessageId(SubmissionOf(c))
    /\ pc[c] = "thrown" =>
         /\ completion[c].value = promise[SubmissionOf(c)].reason
         /\ completion[c].value.raisedFor = SubmissionOf(c)

C6_Witness ==
  \E c, d \in Calls :
    /\ c < d
    /\ pc[c] = "awaiting"
    /\ promise[SubmissionOf(c)].state = "pending"
    /\ Settled(d)

\* C7 as stated: for every send, the transport is configured for host
\* localhost, port 25, secure: false and tls.rejectUnauthorized: false.
C7_TransportConfiguration ==
  \A s \in 1..Len(sent) :
    LET options == sent[s].transporter.options IN
      /\ options.host = "localhost"
      /\ options.port = 25
      /\ options.secure = FALSE
      /\ "tls" \in DOMAIN options
      /\ options.tls.rejectUnauthorized = FALSE

\* C8: the transport object is constructed exactly once, when the module is
\* loaded, and every call to mail uses that same object: no call constructs a
\* new one, replaces it or changes its configuration, on success or failure.
C8_SingleTransporter ==
  /\ created = 1
  /\ transporter = CreateTransport(Options(file), 1)
  /\ \A s \in 1..Len(sent) : sent[s].transporter = transporter

C8_Witness ==
  \E c, d \in Calls :
    /\ pc[c] = "returned"
    /\ pc[d] = "thrown"
    /\ sent[SubmissionOf(c)].transporter = sent[SubmissionOf(d)].transporter

\* C9: mail imposes no timeout of its own: a call settles only if the
\* transport's send operation has settled (so it stays pending while the
\* transport does not respond), and once the transport has responded the
\* call eventually returns or fails.
C9_SettlesIffTransportSettles ==
  /\ [](\A c \in Calls : Settled(c) => TransportSettled(c))
  /\ \A c \in Calls : TransportSettled(c) ~> Settled(c)

C9_Witness ==
  \E c, d \in Calls :
    /\ Settled(c)
    /\ TransportSettled(c)
    /\ pc[d] = "awaiting"
    /\ ~TransportSettled(d)

\* C10: the message handed to the transport has exactly the four fields from,
\* to, subject and html, each equal to the argument of the same name.
C10_MessageIsTheArguments ==
  \A s \in 1..Len(sent) :
    LET data == sent[s].data
        a == args[sent[s].call]
    IN /\ DOMAIN data = {"from", "to", "subject", "html"}
       /\ data.from = a.from
       /\ data.to = a.to
       /\ data.subject = a.subject
       /\ data.html = a.html

C10_Witness ==
  \E s \in 1..Len(sent) :
    /\ sent[s].data.to = "rcpt1@example.com, rcpt2@example.com"
    /\ sent[s].data.from = "support@mail.example.org"
    /\ sent[s].data.subject = "Test"
    /\ sent[s].data.html = "<h1>Hello</h1>"

====
